---- MODULE Spec2Model ----
(***************************************************************************)
(* Model of the incremental RFC indexing pipeline (RFCChain.process and    *)
(* the helpers of src/rag/utils.py and src/rag/index.py).                  *)
(*                                                                         *)
(* The state is the document directory (files), the SQLite `documents`     *)
(* table, the index directories under indices/, the wall clock and the     *)
(* position of the one running process() call with its local variables.    *)
(***************************************************************************)
EXTENDS Integers, Sequences, FiniteSets, TLC

(* ------------------------------------------------------------------ *)
(* Bounds of the model                                                  *)
(* ------------------------------------------------------------------ *)

\* longest file content, in characters
MaxLen == 2
\* largest modification time a file can carry
MaxMtime == 1
\* number of writes / deletions the environment makes to the directory
MaxEdits == 1
\* largest value of the wall clock (CURRENT_TIMESTAMP)
MaxClock == 1
\* chunk_size and chunk_overlap the chain is constructed with
ChunkSize == 1
ChunkOverlap == 0

\* largest chunk_size (and chunk_overlap) a chain is constructed with when
\* the configuration is drawn
MaxChunkSize == 3
\* longest content of a file holding several different characters
MaxTextLen == 3
MaxDocs == 3
MaxChunks == 2
MaxHistory == 5
MaxDeltas == 2

\* document sources: the stems of the *.txt files of the directory
Sources == {"rfc1", "rfc2"}

NoValue == "none"

(* ------------------------------------------------------------------ *)
(* State                                                                *)
(* ------------------------------------------------------------------ *)

VARIABLES
    files,            \* the *.txt files of rfc_docs_path, by base name
    documents,        \* the rows of the documents table
    nextId,           \* the next AUTOINCREMENT id
    indices,          \* the index directory of every source
    now,              \* the wall clock read by CURRENT_TIMESTAMP
    pc,               \* where the running process() call stands
    all_documents,    \* process(): the discovered documents
    docs_to_process,  \* process(): the documents filtering selected
    chunked_docs,     \* process(): the chunks of those documents
    docs_by_source,   \* _vectorize_and_store: the groups, in insertion order
    k,                \* _vectorize_and_store: the group the loop is at
    vector_store,     \* _vectorize_and_store: the store built for that group
    run,              \* what the current (or last) run has done so far
    names,            \* the file names the directory takes in this behaviour
    edits,            \* changes the environment made to the directory
    chunk_size,       \* RFCChain.chunk_size
    chunk_overlap,    \* RFCChain.chunk_overlap
    database,         \* the metadata database file: absent or initialized
    upserts,          \* _update_document_record calls running side by side
    writer,           \* the connection holding the write lock of the database
    conversation_history,  \* BaseModel._conversation_history of a chat model
    call              \* the chat / chat_stream call in progress on the model

vars == <<files, documents, nextId, indices, now, pc, all_documents,
          docs_to_process, chunked_docs, docs_by_source, k, vector_store,
          run, names, edits, chunk_size, chunk_overlap, database,
          upserts, writer, conversation_history, call>>

durable == <<files, documents, nextId, indices>>

\* what RFCChain.__init__ sets and process() only reads
config == <<chunk_size, chunk_overlap, database>>

\* the state outside RFCChain.process: upserts issued on their own, and the
\* chat model
aside == <<upserts, writer, conversation_history, call>>

locals == <<all_documents, docs_to_process, chunked_docs, docs_by_source,
            k, vector_store>>

(* ------------------------------------------------------------------ *)
(* Texts                                                                *)
(* ------------------------------------------------------------------ *)

RECURSIVE Repeat(_, _)
Repeat(c, n) == IF n = 0 THEN <<>> ELSE <<c>> \o Repeat(c, n - 1)

\* the file contents the environment writes: runs of one character
Texts == {Repeat("a", n) : n \in 0..MaxLen}

\* characters of file contents that hold none of the separators "\n\n",
\* "\n", ". " and " " of the splitter
Alphabet == {"a", "b", "\t"}

\* every content of at most MaxTextLen characters of the alphabet
RichTexts == UNION {[1..n -> Alphabet] : n \in 0..MaxTextLen}

(* ------------------------------------------------------------------ *)
(* Chunker: split_documents with the recursive splitter                 *)
(* ------------------------------------------------------------------ *)

\* characters str.strip() removes
Whitespace == {" ", "\n", "\t"}

RECURSIVE Strip(_)
\* str.strip() of the joined chunk
Strip(t) ==
    IF t = <<>> THEN t
    ELSE IF Head(t) \in Whitespace THEN Strip(Tail(t))
    ELSE IF t[Len(t)] \in Whitespace THEN Strip(SubSeq(t, 1, Len(t) - 1))
    ELSE t

RECURSIVE Join(_, _)
Join(ss, sep) ==
    IF ss = <<>> THEN <<>>
    ELSE IF Len(ss) = 1 THEN Head(ss)
    ELSE Head(ss) \o sep \o Join(Tail(ss), sep)

\* _join_docs: the joined and stripped text, appended unless it is empty
AppendJoined(docs, cur, sep) ==
    LET text == Strip(Join(cur, sep))
    IN  IF text = <<>> THEN docs ELSE Append(docs, text)

SepCost(cur, sep, least) == IF Len(cur) > least THEN Len(sep) ELSE 0

RECURSIVE Shrink(_, _, _, _)
\* the while loop of _merge_splits: drop leading pieces until the kept tail
\* is within the overlap and the next piece fits
Shrink(cur, total, len, sep) ==
    IF total > chunk_overlap
       \/ (total + len + SepCost(cur, sep, 0) > chunk_size /\ total > 0)
    THEN Shrink(Tail(cur), total - (Len(Head(cur)) + SepCost(cur, sep, 1)), len, sep)
    ELSE [cur |-> cur, total |-> total]

RECURSIVE MergeLoop(_, _, _, _, _)
\* the for loop of _merge_splits over the pieces
MergeLoop(splits, docs, cur, total, sep) ==
    IF splits = <<>> THEN AppendJoined(docs, cur, sep)
    ELSE
      LET d    == Head(splits)
          len  == Len(d)
          over == total + len + SepCost(cur, sep, 0) > chunk_size
      IN  IF over /\ Len(cur) > 0
          THEN LET kept == Shrink(cur, total, len, sep)
                   cur3 == Append(kept.cur, d)
               IN  MergeLoop(Tail(splits), AppendJoined(docs, cur, sep), cur3,
                             kept.total + len + SepCost(cur3, sep, 1), sep)
          ELSE LET cur3 == Append(cur, d)
               IN  MergeLoop(Tail(splits), docs, cur3,
                             total + len + SepCost(cur3, sep, 1), sep)

\* TextSplitter._merge_splits
merge_splits(splits, sep) == MergeLoop(splits, <<>>, <<>>, 0, sep)

\* the pieces of a text that holds none of the separators "\n\n", "\n",
\* ". ", " ": the empty separator is chosen and the text is cut by character
CharSplits(text) == [i \in 1..Len(text) |-> <<text[i]>>]

RECURSIVE SplitLoop(_, _, _)
\* the loop of RecursiveCharacterTextSplitter._split_text at the last
\* separator (no separators left to recurse with)
SplitLoop(splits, good, final) ==
    IF splits = <<>>
    THEN IF good = <<>> THEN final ELSE final \o merge_splits(good, <<>>)
    ELSE
      LET s == Head(splits)
      IN  IF Len(s) < chunk_size
          THEN SplitLoop(Tail(splits), Append(good, s), final)
          ELSE SplitLoop(Tail(splits), <<>>,
                         Append(IF good = <<>> THEN final
                                ELSE final \o merge_splits(good, <<>>), s))

\* split_text(text, chunk_size, chunk_overlap) with is_recursive = True
split_text(text) == SplitLoop(CharSplits(text), <<>>, <<>>)

Document(content, source) == [page_content |-> content, source |-> source]

RECURSIVE split_documents(_)
\* every document's chunks, each tagged with the document's metadata,
\* as one flat sequence in document order
split_documents(docs) ==
    IF docs = <<>> THEN <<>>
    ELSE LET d == Head(docs)
             chunks == split_text(d.page_content)
         IN  [i \in 1..Len(chunks) |-> Document(chunks[i], d.source)]
             \o split_documents(Tail(docs))

(* ------------------------------------------------------------------ *)
(* Files and content signature                                          *)
(* ------------------------------------------------------------------ *)

\* os.path.join(rfc_docs_path, f"{source}.txt"): <<directory, base name>>
file_path(source) == <<"rfcs", source \o ".txt">>

basename(path) == path[2]

FileNames == {basename(file_path(s)) : s \in Sources}

\* Path.stem of a *.txt file of the directory
stem(name) == CHOOSE s \in Sources : basename(file_path(s)) = name

\* SHA-256 of the content: a digest that differs whenever the bytes differ
sha256(content) == <<"sha256", content>>

NoFile == [content |-> <<>>, mtime |-> -1]

File(content, mtime) == [content |-> content, mtime |-> mtime]

\* get_file_signature(file_path) of a file that exists in directory dir
get_file_signature(dir, path) ==
    [filename      |-> basename(path),
     hash          |-> sha256(dir[basename(path)].content),
     last_modified |-> dir[basename(path)].mtime]

\* os.stat raises FileNotFoundError
SignatureRaises(dir, path) == dir[basename(path)] = NoFile

(* ------------------------------------------------------------------ *)
(* Metadata store: the documents table                                  *)
(* ------------------------------------------------------------------ *)

\* SELECT ... FROM documents WHERE filename = ?
SelectByFilename(table, name) == {r \in table : r.filename = name}

\* mutant: only the content hash is compared
needs_processing_HashOnly(table, dir, path) ==
    LET file_sig == [filename      |-> basename(path),
                     hash          |-> sha256(dir[basename(path)].content)]
        found    == {r \in table : r.filename = file_sig.filename}
    IN  IF found = {} THEN TRUE
        ELSE LET existing == CHOOSE r \in found : TRUE
             IN  ~(existing.file_hash = file_sig.hash)

\* needs_processing(db_path, file_path), the file existing
needs_processing(table, dir, path) ==
    LET file_sig == get_file_signature(dir, path)
        found    == SelectByFilename(table, file_sig.filename)
    IN  IF found = {} THEN TRUE
        ELSE LET existing == CHOOSE r \in found : TRUE
             IN  ~(existing.file_hash = file_sig.hash
                   /\ existing.last_modified = file_sig.last_modified)

\* INSERT INTO documents (filename, file_hash, chunk_count, last_modified):
\* id from AUTOINCREMENT, processed_time DEFAULT CURRENT_TIMESTAMP; the
\* statement is refused when the filename is taken (filename TEXT UNIQUE)
InsertRow(table, id, sig, chunk_count, instant) ==
    IF \E r \in table : r.filename = sig.filename
    THEN table
    ELSE table \cup {[id             |-> id,
                      filename       |-> sig.filename,
                      file_hash      |-> sig.hash,
                      chunk_count    |-> chunk_count,
                      last_modified  |-> sig.last_modified,
                      processed_time |-> instant]}

\* mutant: the UPDATE leaves processed_time as it was
UpdateRows_KeepsProcessedTime(table, sig, chunk_count, instant) ==
    {IF r.filename = sig.filename
     THEN [r EXCEPT !.file_hash = sig.hash,
                    !.chunk_count = chunk_count,
                    !.last_modified = sig.last_modified]
     ELSE r : r \in table}

\* mutant: the UPDATE has no WHERE clause
UpdateRows_AllRows(table, sig, chunk_count, instant) ==
    {[r EXCEPT !.file_hash = sig.hash,
               !.chunk_count = chunk_count,
               !.last_modified = sig.last_modified,
               !.processed_time = instant] : r \in table}

\* UPDATE documents SET file_hash, chunk_count, last_modified,
\* processed_time = CURRENT_TIMESTAMP WHERE filename = ?
UpdateRows(table, sig, chunk_count, instant) ==
    {IF r.filename = sig.filename
     THEN [r EXCEPT !.file_hash = sig.hash,
                    !.chunk_count = chunk_count,
                    !.last_modified = sig.last_modified,
                    !.processed_time = instant]
     ELSE r : r \in table}

\* the SELECT id ... fetchone() of _update_document_record
RecordExists(table, sig) == SelectByFilename(table, sig.filename) # {}

\* mutant: the record is only ever updated, never inserted
Upsert_UpdateOnly(table, id, sig, chunk_count, instant) ==
    {IF r.filename = sig.filename
     THEN [r EXCEPT !.file_hash = sig.hash,
                    !.chunk_count = chunk_count,
                    !.last_modified = sig.last_modified,
                    !.processed_time = instant]
     ELSE r : r \in table}

\* the table after _update_document_record has committed
Upsert(table, id, sig, chunk_count, instant) ==
    IF RecordExists(table, sig)
    THEN UpdateRows(table, sig, chunk_count, instant)
    ELSE InsertRow(table, id, sig, chunk_count, instant)

(* ------------------------------------------------------------------ *)
(* Index builder                                                        *)
(* ------------------------------------------------------------------ *)

\* the orders in which the elements of a set can come (Path.glob over the
\* files, the provider over the items of a response)
Orderings(S) ==
    {q \in [1..Cardinality(S) -> S] : \A i, j \in 1..Cardinality(S) : q[i] = q[j] => i = j}

\* the vector the embedding model computes for a text
Embedding(text) == <<"vec", text>>

\* one item of response.data of client.embeddings.create(input=texts): the
\* embedding of the text at position i, tagged with its 0-based index
ResponseItem(texts, i) == [index |-> i - 1, embedding |-> Embedding(texts[i])]

\* the responses the provider can send for a request: its items in any order
Responses(texts) ==
    {[j \in 1..Len(texts) |-> ResponseItem(texts, order[j])] :
        order \in Orderings(1..Len(texts))}

\* sorted(data, key=lambda x: x.index): ascending and stable
SortedByIndex(data) ==
    LET rank(j) == 1 + Cardinality({i \in 1..Len(data) :
                          \/ data[i].index < data[j].index
                          \/ data[i].index = data[j].index /\ i < j})
    IN  [r \in 1..Len(data) |-> data[CHOOSE j \in 1..Len(data) : rank(j) = r]]

\* mutant: the items are taken in the order of the response
embed_documents_Unsorted(texts, response) ==
    [i \in 1..Len(response) |-> response[i].embedding]

\* OpenAIEmbedding.embed_documents(texts), the provider answering response
embed_documents(texts, response) ==
    LET sorted_data == SortedByIndex(response)
    IN  [i \in 1..Len(sorted_data) |-> sorted_data[i].embedding]

\* mutant: the vectors are paired with the texts from the other end
create_from_texts_Reversed(texts, metadatas, response) ==
    LET embeddings == embed_documents(texts, response)
        n == IF Len(texts) < Len(embeddings) THEN Len(texts) ELSE Len(embeddings)
    IN  [i \in 1..n |-> [text |-> texts[i], vector |-> embeddings[n + 1 - i],
                         metadata |-> metadatas[i]]]

\* FAISSIndexManager.create_from_texts: zip(texts, embeddings) with the
\* metadatas, as FAISS.from_embeddings stores them
create_from_texts(texts, metadatas, response) ==
    LET embeddings == embed_documents(texts, response)
        n == IF Len(texts) < Len(embeddings) THEN Len(texts) ELSE Len(embeddings)
    IN  [i \in 1..n |-> [text |-> texts[i], vector |-> embeddings[i],
                         metadata |-> metadatas[i]]]

\* texts = [doc.page_content for doc in documents]
page_contents(docs) == [i \in 1..Len(docs) |-> docs[i].page_content]

\* FAISSIndexManager.create_from_documents
create_from_documents(docs, response) ==
    create_from_texts(page_contents(docs),
                      [i \in 1..Len(docs) |-> [source |-> docs[i].source]],
                      response)

\* the index directory os.path.join(rfc_docs_path, "indices", source) of a
\* source: absent, half written, or a complete saved store
NoIndex == [status |-> "absent", store |-> <<>>]

PartialIndex == [status |-> "partial", store |-> <<>>]

SavedIndex(store) == [status |-> "complete", store |-> store]

(* ------------------------------------------------------------------ *)
(* Grouping by source (the first loop of _vectorize_and_store)          *)
(* ------------------------------------------------------------------ *)

RECURSIVE GroupLoop_Overwrite(_, _)
\* mutant: a later chunk of a source replaces the group instead of joining it
GroupLoop_Overwrite(docs, by_source) ==
    IF docs = <<>> THEN by_source
    ELSE
      LET doc == Head(docs)
          at  == {i \in 1..Len(by_source) : by_source[i].source = doc.source}
      IN  IF at = {}
          THEN GroupLoop_Overwrite(Tail(docs),
                         Append(by_source, [source |-> doc.source, docs |-> <<doc>>]))
          ELSE GroupLoop_Overwrite(Tail(docs),
                         [i \in 1..Len(by_source) |->
                            IF i \in at
                            THEN [by_source[i] EXCEPT !.docs = <<doc>>]
                            ELSE by_source[i]])

RECURSIVE GroupLoop_Prepend(_, _)
\* mutant: a later chunk of a source is put in front of the group
GroupLoop_Prepend(docs, by_source) ==
    IF docs = <<>> THEN by_source
    ELSE
      LET doc == Head(docs)
          at  == {i \in 1..Len(by_source) : by_source[i].source = doc.source}
      IN  IF at = {}
          THEN GroupLoop_Prepend(Tail(docs),
                         Append(by_source, [source |-> doc.source, docs |-> <<doc>>]))
          ELSE GroupLoop_Prepend(Tail(docs),
                         [i \in 1..Len(by_source) |->
                            IF i \in at
                            THEN [by_source[i] EXCEPT !.docs = <<doc>> \o @]
                            ELSE by_source[i]])

RECURSIVE GroupLoop_NewestFirst(_, _)
\* mutant: the group of a new source is put in front of the other groups
GroupLoop_NewestFirst(docs, by_source) ==
    IF docs = <<>> THEN by_source
    ELSE
      LET doc == Head(docs)
          at  == {i \in 1..Len(by_source) : by_source[i].source = doc.source}
      IN  IF at = {}
          THEN GroupLoop_NewestFirst(Tail(docs),
                         <<[source |-> doc.source, docs |-> <<doc>>]>> \o by_source)
          ELSE GroupLoop_NewestFirst(Tail(docs),
                         [i \in 1..Len(by_source) |->
                            IF i \in at
                            THEN [by_source[i] EXCEPT !.docs = Append(@, doc)]
                            ELSE by_source[i]])

RECURSIVE GroupLoop(_, _)
\* docs_by_source as the sequence of its items, in insertion order
GroupLoop(docs, by_source) ==
    IF docs = <<>> THEN by_source
    ELSE
      LET doc == Head(docs)
          at  == {i \in 1..Len(by_source) : by_source[i].source = doc.source}
      IN  IF at = {}
          THEN GroupLoop(Tail(docs),
                         Append(by_source, [source |-> doc.source, docs |-> <<doc>>]))
          ELSE GroupLoop(Tail(docs),
                         [i \in 1..Len(by_source) |->
                            IF i \in at
                            THEN [by_source[i] EXCEPT !.docs = Append(@, doc)]
                            ELSE by_source[i]])

group_by_source(docs) == GroupLoop(docs, <<>>)

NoFailure == [source |-> NoValue, stage |-> NoValue]

\* a call process() makes on the chain: the method, what it is given and
\* what it returns
Call(fn, arg, ret) == [fn |-> fn, arg |-> arg, ret |-> ret]

\* the record of a run that has just started
NewRun(dir, table, idx) ==
    [outcome     |-> "running",
     editsStart  |-> edits,
     filesStart  |-> dir,
     dbStart     |-> table,
     idxStart    |-> idx,
     calls       |-> <<>>,
     checked     |-> <<>>,
     selected    |-> {},
     grouped     |-> {},
     chunkCalls  |-> 0,
     embedCalls  |-> <<>>,
     responses   |-> <<>>,
     embedReturns |-> <<>>,
     saveCalls   |-> <<>>,
     saved       |-> {},
     upsertCalls |-> <<>>,
     committed   |-> {},
     failed      |-> NoFailure]

\* no chat call in progress
NoCall == [kind |-> NoValue, full_response |-> <<>>]

\* no call of _update_document_record issued outside a run
NoUpsert ==
    [pc |-> "done", sig |-> NoValue, chunk_count |-> 0, existing |-> FALSE,
     shared |-> FALSE, txn |-> {}, concurrent |-> FALSE]

\* no upsert issued outside a run, no chat held with the model
AsideIdle ==
    /\ upserts = [s \in Sources |-> NoUpsert]
    /\ writer = NoValue
    /\ conversation_history = <<>>
    /\ call = NoCall

\* the record when no run has been observed
Closed ==
    [NewRun([n \in FileNames |-> NoFile], {}, [s \in Sources |-> NoIndex])
       EXCEPT !.outcome = NoValue]

\* the state after RFCChain.__init__ on a fresh database, the directory
\* holding any files with names of the set S
InitWith(S) ==
    /\ names = S
    /\ files \in [FileNames -> {NoFile} \cup {File(t, 0) : t \in Texts}]
    /\ \A n \in FileNames \ S : files[n] = NoFile
    /\ documents = {}
    /\ nextId = 1
    /\ indices = [s \in Sources |-> NoIndex]
    /\ now = 0
    /\ pc = "idle"
    /\ all_documents = <<>>
    /\ docs_to_process = <<>>
    /\ chunked_docs = <<>>
    /\ docs_by_source = <<>>
    /\ k = 0
    /\ vector_store = <<>>
    /\ edits = 0
    /\ run = Closed
    /\ chunk_size = ChunkSize
    /\ chunk_overlap = ChunkOverlap
    /\ database = "initialized"
    /\ AsideIdle

Init == InitWith(FileNames)

\* a directory that only ever holds rfc1.txt
InitOne == InitWith({basename(file_path("rfc1"))})

\* process() is left: its locals are gone
Leave(r, outcome, failure) ==
    /\ pc' = "idle"
    /\ all_documents' = <<>>
    /\ docs_to_process' = <<>>
    /\ chunked_docs' = <<>>
    /\ docs_by_source' = <<>>
    /\ k' = 0
    /\ vector_store' = <<>>
    /\ run' = [r EXCEPT !.outcome = outcome, !.failed = failure]

(* ------------------------------------------------------------------ *)
(* Environment                                                          *)
(* ------------------------------------------------------------------ *)

\* another program writes a file of the directory (new content, or the
\* same content touched, or new content with the old timestamp kept)
WriteFile(name, content, mtime) ==
    /\ edits < MaxEdits
    /\ name \in names
    /\ files[name] # File(content, mtime)
    /\ files' = [files EXCEPT ![name] = File(content, mtime)]
    /\ edits' = edits + 1
    /\ UNCHANGED <<documents, nextId, indices, now, pc, locals, run, names, config, aside>>

DeleteFile(name) ==
    /\ edits < MaxEdits
    /\ files[name] # NoFile
    /\ files' = [files EXCEPT ![name] = NoFile]
    /\ edits' = edits + 1
    /\ UNCHANGED <<documents, nextId, indices, now, pc, locals, run, names, config, aside>>

Tick ==
    /\ now < MaxClock
    /\ now' = now + 1
    /\ UNCHANGED <<durable, pc, locals, run, names, edits, config, aside>>

(* ------------------------------------------------------------------ *)
(* RFCChain.process                                                     *)
(* ------------------------------------------------------------------ *)

Failure(source, stage) == [source |-> source, stage |-> stage]

\* get_doc_from_path: one Document per *.txt file, its stem as the source
get_doc_from_path(dir, order) ==
    [i \in 1..Len(order) |-> Document(dir[order[i]].content, stem(order[i]))]

RECURSIVE filter_unprocessed_documents_KeepsSourceless(_, _, _)
\* mutant: a document without a source is taken as one to process
filter_unprocessed_documents_KeepsSourceless(docs, table, dir) ==
    IF docs = <<>> THEN <<>>
    ELSE
      LET doc  == Head(docs)
          rest == filter_unprocessed_documents_KeepsSourceless(Tail(docs), table, dir)
      IN  IF doc.source = "" THEN <<doc>> \o rest
          ELSE IF needs_processing(table, dir, file_path(doc.source))
               THEN <<doc>> \o rest
               ELSE rest

RECURSIVE filter_unprocessed_documents(_, _, _)
\* _filter_unprocessed_documents, every file of the documents existing
filter_unprocessed_documents(docs, table, dir) ==
    IF docs = <<>> THEN <<>>
    ELSE
      LET doc  == Head(docs)
          rest == filter_unprocessed_documents(Tail(docs), table, dir)
      IN  IF doc.source = "" THEN rest
          ELSE IF needs_processing(table, dir, file_path(doc.source))
               THEN <<doc>> \o rest
               ELSE rest

RECURSIVE CheckedByFilter(_)
\* the sources whose file path _filter_unprocessed_documents hands to
\* needs_processing, call after call: the loop reaches the call only past
\* "if not source: continue"
CheckedByFilter(docs) ==
    IF docs = <<>> THEN <<>>
    ELSE IF Head(docs).source = ""
         THEN CheckedByFilter(Tail(docs))
         ELSE <<Head(docs).source>> \o CheckedByFilter(Tail(docs))

\* needs_processing raises for some document of the list
FilterRaises(docs, dir) ==
    \E i \in 1..Len(docs) :
        docs[i].source # "" /\ SignatureRaises(dir, file_path(docs[i].source))

SourcesOf(docs) == {docs[i].source : i \in 1..Len(docs)}

\* mutant: the record is updated before the index is saved
LoopBody_CommitFirst == <<"embed", "commit", "save">>

\* the statements of the loop body of _vectorize_and_store, in order
LoopBody == <<"embed", "save", "commit">>

\* the statement after stmt in the loop body, "next" after the last one
After(stmt) ==
    LET i == CHOOSE j \in 1..Len(LoopBody) : LoopBody[j] = stmt
    IN  IF i = Len(LoopBody) THEN "next" ELSE LoopBody[i + 1]

\* control moves on from stmt; r is the run's record after stmt
Goto(stmt, r, store) ==
    IF After(stmt) # "next"
    THEN /\ pc' = After(stmt)
         /\ run' = r
         /\ vector_store' = store
         /\ UNCHANGED <<all_documents, docs_to_process, chunked_docs,
                        docs_by_source, k>>
    ELSE IF k < Len(docs_by_source)
    THEN /\ pc' = LoopBody[1]
         /\ k' = k + 1
         /\ run' = r
         /\ vector_store' = store
         /\ UNCHANGED <<all_documents, docs_to_process, chunked_docs,
                        docs_by_source>>
    ELSE /\ Leave(r, "completed", NoFailure)

\* process() up to the first early return: discovery
Discover ==
    /\ pc = "idle"
    /\ \E order \in Orderings({n \in FileNames : files[n] # NoFile}) :
         LET docs == get_doc_from_path(files, order)
             r    == [NewRun(files, documents, indices) EXCEPT
                         !.calls = <<Call("_get_all_documents", <<>>, docs)>>]
         IN  IF docs = <<>>
             THEN Leave(r, "no_documents", NoFailure)
             ELSE /\ pc' = "filter"
                  /\ all_documents' = docs
                  /\ run' = r
                  /\ UNCHANGED <<docs_to_process, chunked_docs, docs_by_source,
                                 k, vector_store>>
    /\ UNCHANGED <<durable, now, names, edits, config, aside>>

\* mutant: process() goes on to chunking when filtering selected nothing
Filter_NoEarlyReturn ==
    /\ pc = "filter"
    /\ IF FilterRaises(all_documents, files)
       THEN Leave(run, "raised", Failure(NoValue, "filter"))
       ELSE /\ pc' = "chunk"
            /\ docs_to_process' =
                  filter_unprocessed_documents(all_documents, documents, files)
            /\ run' = [run EXCEPT !.selected = SourcesOf(docs_to_process'),
                                   !.checked = CheckedByFilter(all_documents),
                                   !.calls = Append(@,
                                       Call("_filter_unprocessed_documents",
                                            all_documents, docs_to_process'))]
            /\ UNCHANGED <<all_documents, chunked_docs, docs_by_source,
                           k, vector_store>>
    /\ UNCHANGED <<durable, now, names, edits, config, aside>>

\* _filter_unprocessed_documents and the second early return
Filter ==
    /\ pc = "filter"
    /\ IF FilterRaises(all_documents, files)
       THEN Leave(run, "raised", Failure(NoValue, "filter"))
       ELSE LET todo == filter_unprocessed_documents(all_documents, documents, files)
                r    == [run EXCEPT !.selected = SourcesOf(todo),
                                       !.checked = CheckedByFilter(all_documents),
                                       !.calls = Append(@,
                                           Call("_filter_unprocessed_documents",
                                                all_documents, todo))]
            IN  IF todo = <<>>
                THEN Leave(r, "up_to_date", NoFailure)
                ELSE /\ pc' = "chunk"
                     /\ docs_to_process' = todo
                     /\ run' = r
                     /\ UNCHANGED <<all_documents, chunked_docs, docs_by_source,
                                    k, vector_store>>
    /\ UNCHANGED <<durable, now, names, edits, config, aside>>

\* mutant: the chunker is given all the documents discovered
Chunk_AllDocuments ==
    /\ pc = "chunk"
    /\ IF chunk_overlap > chunk_size
       THEN Leave([run EXCEPT !.chunkCalls = @ + 1], "raised",
                  Failure(NoValue, "chunk"))
       ELSE /\ chunked_docs' = split_documents(all_documents)
            /\ run' = [run EXCEPT !.chunkCalls = @ + 1,
                                   !.calls = Append(@,
                                       Call("_chunk_documents", all_documents,
                                            chunked_docs'))]
            /\ pc' = "group"
            /\ UNCHANGED <<all_documents, docs_to_process, docs_by_source, k,
                           vector_store>>
    /\ UNCHANGED <<durable, now, names, edits, config, aside>>

\* _chunk_documents: split_documents builds the splitter, whose constructor
\* raises ValueError for a chunk_overlap larger than chunk_size, and splits
Chunk ==
    /\ pc = "chunk"
    /\ IF chunk_overlap > chunk_size
       THEN Leave([run EXCEPT !.chunkCalls = @ + 1], "raised",
                  Failure(NoValue, "chunk"))
       ELSE /\ chunked_docs' = split_documents(docs_to_process)
            /\ run' = [run EXCEPT !.chunkCalls = @ + 1,
                                   !.calls = Append(@,
                                       Call("_chunk_documents", docs_to_process,
                                            chunked_docs'))]
            /\ pc' = "group"
            /\ UNCHANGED <<all_documents, docs_to_process, docs_by_source, k,
                           vector_store>>
    /\ UNCHANGED <<durable, now, names, edits, config, aside>>

\* _vectorize_and_store: grouping, and entry of the loop over the groups
Group ==
    /\ pc = "group"
    /\ LET groups == group_by_source(chunked_docs)
           r == [run EXCEPT !.grouped = {groups[i].source : i \in 1..Len(groups)},
                            !.calls = Append(@,
                                Call("_vectorize_and_store", chunked_docs, NoValue))]
       IN  IF groups = <<>>
           THEN Leave(r, "completed", NoFailure)
           ELSE /\ pc' = LoopBody[1]
                /\ docs_by_source' = groups
                /\ k' = 1
                /\ run' = r
                /\ UNCHANGED <<all_documents, docs_to_process, chunked_docs,
                               vector_store>>
    /\ UNCHANGED <<durable, now, names, edits, config, aside>>

\* mutant: the embedder is called once for every chunk of the group
Embed_OneCallPerChunk ==
    /\ pc = "embed"
    /\ LET docs == docs_by_source[k].docs
       IN  \E response \in Responses(page_contents(docs)) :
             Goto("embed",
                  [run EXCEPT
                     !.embedCalls = @ \o [i \in 1..Len(docs) |->
                                             <<docs[i].page_content>>],
                     !.responses = Append(@, [i \in 1..Len(response) |->
                                                 response[i].index]),
                     !.embedReturns =
                         Append(@, embed_documents(page_contents(docs), response))],
                  create_from_documents(docs, response))
    /\ UNCHANGED <<durable, now, names, edits, config, aside>>

\* vector_store = await index_manager.create_from_documents(docs)
Embed ==
    /\ pc = "embed"
    /\ LET docs == docs_by_source[k].docs
       IN  \E response \in Responses(page_contents(docs)) :
             Goto("embed",
                  [run EXCEPT
                     !.embedCalls = Append(@, page_contents(docs)),
                     !.responses = Append(@, [i \in 1..Len(response) |->
                                                 response[i].index]),
                     !.embedReturns =
                         Append(@, embed_documents(page_contents(docs), response))],
                  create_from_documents(docs, response))
    /\ UNCHANGED <<durable, now, names, edits, config, aside>>

\* mutant: the exception of the embedder is swallowed and the loop goes on
\* with an empty store
EmbedRaises_Swallowed ==
    /\ pc = "embed"
    /\ Goto("embed",
            [run EXCEPT !.embedCalls = Append(@, <<"raised">>),
                        !.failed = Failure(docs_by_source[k].source, "embed")],
            <<>>)
    /\ UNCHANGED <<durable, now, names, edits, config, aside>>

\* the embedding model raises (rate limit, network, malformed response)
EmbedRaises ==
    /\ pc = "embed"
    /\ Leave([run EXCEPT !.embedCalls = Append(@, <<"raised">>)],
             "raised", Failure(docs_by_source[k].source, "embed"))
    /\ UNCHANGED <<durable, now, names, edits, config, aside>>

\* save_index: save_local starts writing into the index directory
SaveBegin ==
    /\ pc = "save"
    /\ indices' = [indices EXCEPT ![docs_by_source[k].source] = PartialIndex]
    /\ pc' = "saving"
    /\ run' = [run EXCEPT !.saveCalls = Append(@, docs_by_source[k].source)]
    /\ UNCHANGED <<files, documents, nextId, now, names, edits, locals, config, aside>>

\* save_index returns: the directory holds the whole store
SaveEnd ==
    /\ pc = "saving"
    /\ indices' = [indices EXCEPT ![docs_by_source[k].source] = SavedIndex(vector_store)]
    /\ Goto("save", [run EXCEPT !.saved = @ \cup {docs_by_source[k].source}],
            vector_store)
    /\ UNCHANGED <<files, documents, nextId, now, names, edits, config, aside>>

\* mutant: the exception of save_index is swallowed and the loop goes on
SaveRaises_Swallowed ==
    /\ pc \in {"save", "saving"}
    /\ Goto("save",
            [run EXCEPT !.failed = Failure(docs_by_source[k].source, "save")],
            vector_store)
    /\ UNCHANGED <<durable, now, names, edits, config, aside>>

\* save_index raises, before writing anything or with the directory half
\* written
SaveRaises ==
    /\ pc \in {"save", "saving"}
    /\ Leave(IF pc = "save"
             THEN [run EXCEPT !.saveCalls = Append(@, docs_by_source[k].source)]
             ELSE run,
             "raised", Failure(docs_by_source[k].source, "save"))
    /\ UNCHANGED <<durable, now, names, edits, config, aside>>

\* _update_document_record(source, len(docs))
Commit ==
    /\ pc = "commit"
    /\ LET g    == docs_by_source[k]
           path == file_path(g.source)
           r    == [run EXCEPT !.upsertCalls = Append(@, g.source)]
       IN  IF SignatureRaises(files, path)
           THEN /\ Leave(r, "raised", Failure(g.source, "signature"))
                /\ UNCHANGED <<documents, nextId>>
           ELSE LET file_sig == get_file_signature(files, path)
                IN  /\ documents' = Upsert(documents, nextId, file_sig, Len(g.docs), now)
                    /\ nextId' = IF RecordExists(documents, file_sig)
                                 THEN nextId ELSE nextId + 1
                    /\ Goto("commit", [r EXCEPT !.committed = @ \cup {g.source}],
                            vector_store)
    /\ UNCHANGED <<files, indices, now, names, edits, config, aside>>

\* mutant: the statement has taken effect when the failure is reported
CommitRaises_RowWritten ==
    /\ pc = "commit"
    /\ ~SignatureRaises(files, file_path(docs_by_source[k].source))
    /\ documents' = Upsert(documents, nextId,
                           get_file_signature(files, file_path(docs_by_source[k].source)),
                           Len(docs_by_source[k].docs), now)
    /\ Leave([run EXCEPT !.upsertCalls = Append(@, docs_by_source[k].source)],
             "raised", Failure(docs_by_source[k].source, "commit"))
    /\ UNCHANGED <<files, nextId, indices, now, names, edits, config, aside>>

\* the storage engine fails (locked, disk full): nothing is committed
CommitRaises ==
    /\ pc = "commit"
    /\ ~SignatureRaises(files, file_path(docs_by_source[k].source))
    /\ Leave([run EXCEPT !.upsertCalls = Append(@, docs_by_source[k].source)],
             "raised", Failure(docs_by_source[k].source, "commit"))
    /\ UNCHANGED <<durable, now, names, edits, config, aside>>

\* the process is killed or the task cancelled while process() runs
Crash ==
    /\ pc # "idle"
    /\ Leave(run, "crashed", NoFailure)
    /\ UNCHANGED <<durable, now, names, edits, config, aside>>

Next ==
    \/ \E name \in FileNames, content \in Texts, mtime \in 0..MaxMtime :
          WriteFile(name, content, mtime)
    \/ \E name \in FileNames : DeleteFile(name)
    \/ Tick
    \/ Discover
    \/ Filter
    \/ Chunk
    \/ Group
    \/ Embed
    \/ EmbedRaises
    \/ SaveBegin
    \/ SaveEnd
    \/ SaveRaises
    \/ Commit
    \/ CommitRaises
    \/ Crash

Spec == Init /\ [][Next]_vars

SpecOne == InitOne /\ [][Next]_vars

(* ------------------------------------------------------------------ *)
(* Construction with any configuration                                  *)
(* ------------------------------------------------------------------ *)

\* before RFCChain(...) is called: no database file yet, the arguments
\* chunk_size and chunk_overlap being any pair of small numbers
InitNew ==
    /\ names = {basename(file_path("rfc1"))}
    /\ files \in [FileNames -> {NoFile} \cup {File(t, 0) : t \in Texts}]
    /\ \A n \in FileNames \ names : files[n] = NoFile
    /\ documents = {}
    /\ nextId = 1
    /\ indices = [s \in Sources |-> NoIndex]
    /\ now = 0
    /\ pc = "new"
    /\ all_documents = <<>>
    /\ docs_to_process = <<>>
    /\ chunked_docs = <<>>
    /\ docs_by_source = <<>>
    /\ k = 0
    /\ vector_store = <<>>
    /\ edits = 0
    /\ run = Closed
    /\ chunk_size \in 1..MaxChunkSize
    /\ chunk_overlap \in 0..MaxChunkSize
    /\ database = "absent"
    /\ AsideIdle

\* RFCChain.__init__: keeps chunk_size and chunk_overlap as given and calls
\* init_database (CREATE TABLE IF NOT EXISTS)
Construct ==
    /\ pc = "new"
    /\ pc' = "idle"
    /\ database' = "initialized"
    /\ UNCHANGED <<durable, now, locals, run, names, edits, chunk_size,
                   chunk_overlap, aside>>

NextConfig ==
    \/ Construct
    \/ Next

SpecConfig == InitNew /\ [][NextConfig]_vars

(* ------------------------------------------------------------------ *)
(* Runs over richer contents, nothing failing                           *)
(* ------------------------------------------------------------------ *)

\* a length of n characters counted in blocks of 50 characters
Blocks(n) == n \div 50

\* rfc1.txt of 900 and rfc2.txt of 50 characters without separators
ScenarioFiles ==
    [n \in FileNames |->
        IF n = basename(file_path("rfc1")) THEN File(Repeat("a", Blocks(900)), 0)
        ELSE File(Repeat("a", Blocks(50)), 0)]

\* the directories and configurations the runs start from: rfc1.txt with
\* any content of the alphabet, rfc2.txt absent or of one character, and
\* any chunk_overlap below chunk_size; and the scenario with
\* chunk_size = 500 and chunk_overlap = 100 (cli.py defaults)
Starts ==
    {[files |-> f, chunk_size |-> cs, chunk_overlap |-> co] :
        f \in {g \in [FileNames -> {NoFile} \cup {File(t, 0) : t \in RichTexts}] :
                  Len(g[basename(file_path("rfc2"))].content) <= 1},
        cs \in 1..MaxChunkSize, co \in 0..(MaxChunkSize - 1)}
    \cup {[files |-> ScenarioFiles, chunk_size |-> Blocks(500),
           chunk_overlap |-> Blocks(100)]}

InitBuild ==
    /\ \E start \in Starts :
          /\ start.chunk_overlap < start.chunk_size
          /\ files = start.files
          /\ chunk_size = start.chunk_size
          /\ chunk_overlap = start.chunk_overlap
    /\ names = {}
    /\ documents = {}
    /\ nextId = 1
    /\ indices = [s \in Sources |-> NoIndex]
    /\ now = 0
    /\ pc = "idle"
    /\ all_documents = <<>>
    /\ docs_to_process = <<>>
    /\ chunked_docs = <<>>
    /\ docs_by_source = <<>>
    /\ k = 0
    /\ vector_store = <<>>
    /\ edits = 0
    /\ run = Closed
    /\ database = "initialized"
    /\ AsideIdle

\* process() with the directory left alone and every call succeeding
NextBuild ==
    \/ Discover
    \/ Filter
    \/ Chunk
    \/ Group
    \/ Embed
    \/ SaveBegin
    \/ SaveEnd
    \/ Commit

SpecBuild == InitBuild /\ [][NextBuild]_vars

(* ------------------------------------------------------------------ *)
(* An embedder that returns fewer vectors than texts                    *)
(* ------------------------------------------------------------------ *)

\* the responses that hold an item for some of the texts only, and for one
\* at least
ShortResponses(texts) ==
    UNION {{[j \in 1..Cardinality(S) |-> ResponseItem(texts, order[j])] :
               order \in Orderings(S)} :
           S \in (SUBSET (1..Len(texts))) \ {{}, 1..Len(texts)}}

\* create_from_documents on a short response, FAISS.from_embeddings taking
\* the pairs zip(texts, embeddings) has left and the first metadatas
EmbedShort ==
    /\ pc = "embed"
    /\ LET docs == docs_by_source[k].docs
       IN  \E response \in ShortResponses(page_contents(docs)) :
             Goto("embed",
                  [run EXCEPT
                     !.embedCalls = Append(@, page_contents(docs)),
                     !.responses = Append(@, [i \in 1..Len(response) |->
                                                 response[i].index]),
                     !.embedReturns =
                         Append(@, embed_documents(page_contents(docs), response))],
                  create_from_documents(docs, response))
    /\ UNCHANGED <<durable, now, names, edits, config, aside>>

\* create_from_documents on a response that is short or empty,
\* FAISS.from_embeddings raising ValueError: nothing to unpack from an empty
\* zip, or (releases that compare the lengths) fewer texts than metadatas
EmbedShortRejected ==
    /\ pc = "embed"
    /\ Leave([run EXCEPT !.embedCalls = Append(@, page_contents(docs_by_source[k].docs))],
             "raised", Failure(docs_by_source[k].source, "embed"))
    /\ UNCHANGED <<durable, now, names, edits, config, aside>>

NextShort ==
    \/ NextBuild
    \/ EmbedShort
    \/ EmbedShortRejected

SpecShort == InitBuild /\ [][NextShort]_vars

(* ------------------------------------------------------------------ *)
(* _update_document_record called for two sources side by side, each    *)
(* on its own sqlite3 connection                                        *)
(* ------------------------------------------------------------------ *)

\* the rows an earlier run over the directory dir has committed
TableOf(dir) ==
    {[id             |-> IF n = basename(file_path("rfc1")) THEN 1 ELSE 2,
      filename       |-> n,
      file_hash      |-> sha256(dir[n].content),
      chunk_count    |-> 1,
      last_modified  |-> dir[n].mtime,
      processed_time |-> 0] : n \in {f \in FileNames : dir[f] # NoFile}}

\* one call for every source, with any chunk count, over any two files
\* and the rows of any earlier directory
InitUpserts ==
    /\ names = {}
    /\ files \in [FileNames -> {File(t, 1) : t \in Texts}]
    /\ \E before \in [FileNames -> {NoFile} \cup {File(t, 0) : t \in Texts}] :
          documents = TableOf(before)
    /\ nextId = 3
    /\ indices = [s \in Sources |-> NoIndex]
    /\ now = 1
    /\ pc = "idle"
    /\ all_documents = <<>>
    /\ docs_to_process = <<>>
    /\ chunked_docs = <<>>
    /\ docs_by_source = <<>>
    /\ k = 0
    /\ vector_store = <<>>
    /\ edits = 0
    /\ run = Closed
    /\ chunk_size = ChunkSize
    /\ chunk_overlap = ChunkOverlap
    /\ database = "initialized"
    /\ upserts \in [Sources -> {[NoUpsert EXCEPT !.pc = "select", !.chunk_count = c] :
                                    c \in 1..MaxChunks}]
    /\ writer = NoValue
    /\ conversation_history = <<>>
    /\ call = NoCall

\* get_file_signature, sqlite3.connect, and the SELECT with fetchone(): a
\* row fetched leaves the statement open, and with it the connection's
\* read lock
UpsertSelect(s) ==
    /\ upserts[s].pc = "select"
    /\ \A o \in Sources : upserts[o].pc # "committing"
    /\ LET file_sig == get_file_signature(files, file_path(s))
       IN  upserts' = [upserts EXCEPT
                         ![s].pc = "fetched",
                         ![s].sig = file_sig,
                         ![s].existing = RecordExists(documents, file_sig),
                         ![s].shared = RecordExists(documents, file_sig)]
    /\ UNCHANGED <<durable, now, pc, locals, run, names, edits, config, writer,
                   conversation_history, call>>

\* cursor.execute of the UPDATE or INSERT begins: the cursor's open
\* statement is reset, which gives up the read lock
UpsertReset(s) ==
    /\ upserts[s].pc = "fetched"
    /\ upserts' = [upserts EXCEPT ![s].pc = "begin", ![s].shared = FALSE]
    /\ UNCHANGED <<durable, now, pc, locals, run, names, edits, config, writer,
                   conversation_history, call>>

\* the implicit BEGIN and the UPDATE or INSERT: the connection waits for
\* the write lock and changes the table within its transaction; an INSERT
\* of a filename that is taken raises IntegrityError
UpsertWrite(s) ==
    /\ upserts[s].pc = "begin"
    /\ writer = NoValue
    /\ LET u == upserts[s]
           other == CHOOSE o \in Sources : o # s
       IN  IF ~u.existing /\ RecordExists(documents, u.sig)
           THEN /\ upserts' = [upserts EXCEPT ![s].pc = "error"]
                /\ UNCHANGED writer
           ELSE /\ upserts' = [upserts EXCEPT
                       ![s].pc = "commit",
                       ![s].concurrent = upserts[other].pc \in {"fetched", "begin"},
                       ![s].txn = IF u.existing
                                  THEN UpdateRows(documents, u.sig, u.chunk_count, now)
                                  ELSE InsertRow(documents, nextId, u.sig,
                                                 u.chunk_count, now)]
                /\ writer' = s
    /\ UNCHANGED <<durable, now, pc, locals, run, names, edits, config,
                   conversation_history, call>>

\* conn.commit() asks for the exclusive lock: no connection can begin to
\* read from now on
UpsertCommitBegin(s) ==
    /\ upserts[s].pc = "commit"
    /\ upserts' = [upserts EXCEPT ![s].pc = "committing"]
    /\ UNCHANGED <<durable, now, pc, locals, run, names, edits, config, writer,
                   conversation_history, call>>

\* conn.commit() returns once no other connection holds a read lock: the
\* transaction is in the table; conn.close()
UpsertCommit(s) ==
    /\ upserts[s].pc = "committing"
    /\ \A o \in Sources \ {s} : ~upserts[o].shared
    /\ documents' = upserts[s].txn
    /\ nextId' = IF upserts[s].existing THEN nextId ELSE nextId + 1
    /\ upserts' = [upserts EXCEPT ![s].pc = "done", ![s].txn = {}]
    /\ writer' = NoValue
    /\ UNCHANGED <<files, indices, now, pc, locals, run, names, edits, config,
                   conversation_history, call>>

NextUpserts ==
    \E s \in Sources :
        \/ UpsertSelect(s)
        \/ UpsertReset(s)
        \/ UpsertWrite(s)
        \/ UpsertCommitBegin(s)
        \/ UpsertCommit(s)

SpecUpserts == InitUpserts /\ [][NextUpserts]_vars

\* the documents a caller can hand to _filter_unprocessed_documents: with
\* the source of a file, or with no (or an empty) source
FilterDocuments == {Document(<<"a">>, s) : s \in Sources \cup {""}}

\* _filter_unprocessed_documents called on a list of documents, over any
\* directory and the rows of any earlier directory
InitFilter ==
    /\ names = {}
    /\ files \in [FileNames -> {NoFile} \cup {File(t, 0) : t \in Texts}]
    /\ \E before \in [FileNames -> {NoFile} \cup {File(t, 0) : t \in Texts}] :
          documents = TableOf(before)
    /\ nextId = 3
    /\ indices = [s \in Sources |-> NoIndex]
    /\ now = 0
    /\ pc = "filter"
    /\ all_documents \in UNION {[1..n -> FilterDocuments] : n \in 0..MaxDocs}
    /\ docs_to_process = <<>>
    /\ chunked_docs = <<>>
    /\ docs_by_source = <<>>
    /\ k = 0
    /\ vector_store = <<>>
    /\ edits = 0
    /\ run = NewRun(files, documents, indices)
    /\ chunk_size = ChunkSize
    /\ chunk_overlap = ChunkOverlap
    /\ database = "initialized"
    /\ AsideIdle

NextFilter == Filter

SpecFilter == InitFilter /\ [][NextFilter]_vars

(* ------------------------------------------------------------------ *)
(* The chat models: OpenAIModel / OllamaModel over BaseModel            *)
(* ------------------------------------------------------------------ *)

RECURSIVE Concat(_)
\* "".join(seqs)
Concat(seqs) == IF seqs = <<>> THEN <<>> ELSE Head(seqs) \o Concat(Tail(seqs))

Message(role, content) == [role |-> role, content |-> content]

Prompts == {<<"q">>}

\* the system argument: its default "", or a prompt
Systems == {<<>>, <<"s">>}

\* the pieces of text a provider sends
Deltas == {<<"x">>, <<"y">>}

\* a model just constructed
InitChat ==
    /\ names = {}
    /\ files = [n \in FileNames |-> NoFile]
    /\ documents = {}
    /\ nextId = 1
    /\ indices = [s \in Sources |-> NoIndex]
    /\ now = 0
    /\ pc = "idle"
    /\ all_documents = <<>>
    /\ docs_to_process = <<>>
    /\ chunked_docs = <<>>
    /\ docs_by_source = <<>>
    /\ k = 0
    /\ vector_store = <<>>
    /\ edits = 0
    /\ run = Closed
    /\ chunk_size = ChunkSize
    /\ chunk_overlap = ChunkOverlap
    /\ database = "initialized"
    /\ AsideIdle

\* what a chat action leaves alone
pipeline == <<durable, now, pc, locals, run, names, edits, config, upserts, writer>>

\* chat / chat_stream up to the await of the provider's API: the system
\* message if the history is empty, then the user message
ChatBegin(kind, prompt, system) ==
    /\ call.kind = NoValue
    /\ Len(conversation_history) + 2 <= MaxHistory
    /\ conversation_history' =
          (IF conversation_history = <<>>
           THEN <<Message("system", system)>> ELSE conversation_history)
          \o <<Message("user", prompt)>>
    /\ call' = [kind |-> kind, full_response |-> <<>>]
    /\ UNCHANGED pipeline

\* chat: the API call returns and the assistant message is appended
ChatReturns(content) ==
    /\ call.kind = "chat"
    /\ conversation_history' = Append(conversation_history,
                                      Message("assistant", content))
    /\ call' = NoCall
    /\ UNCHANGED pipeline

\* chat / chat_stream: the API call, or the stream while it is read, raises
ChatRaises ==
    /\ call.kind \in {"chat", "chat_stream"}
    /\ call' = NoCall
    /\ UNCHANGED <<conversation_history, pipeline>>

\* chat_stream: a chunk with content arrives and is yielded
StreamChunk(content) ==
    /\ call.kind = "chat_stream"
    /\ Len(call.full_response) < MaxDeltas
    /\ call' = [call EXCEPT !.full_response = Append(@, content)]
    /\ UNCHANGED <<conversation_history, pipeline>>

\* chat_stream: the stream ends and the assistant message is appended
StreamEnds ==
    /\ call.kind = "chat_stream"
    /\ conversation_history' = Append(conversation_history,
                                      Message("assistant", Concat(call.full_response)))
    /\ call' = NoCall
    /\ UNCHANGED pipeline

\* chat_stream: the caller stops reading and the generator is closed at
\* its yield
StreamClosed ==
    /\ call.kind = "chat_stream"
    /\ call.full_response # <<>>
    /\ call' = NoCall
    /\ UNCHANGED <<conversation_history, pipeline>>

\* BaseModel.clear_history
clear_history ==
    /\ call.kind = NoValue
    /\ conversation_history # <<>>
    /\ conversation_history' = <<>>
    /\ UNCHANGED <<call, pipeline>>

NextChat ==
    \/ \E kind \in {"chat", "chat_stream"}, prompt \in Prompts, system \in Systems :
          ChatBegin(kind, prompt, system)
    \/ \E content \in Deltas : ChatReturns(content)
    \/ ChatRaises
    \/ \E content \in Deltas : StreamChunk(content)
    \/ StreamEnds
    \/ StreamClosed
    \/ clear_history

SpecChat == InitChat /\ [][NextChat]_vars

(* ------------------------------------------------------------------ *)
(* Properties                                                           *)
(* ------------------------------------------------------------------ *)

\* the rows of the table that belong to a source's file
RowsOf(table, source) == SelectByFilename(table, basename(file_path(source)))

FileOf(source) == files[basename(file_path(source))]

\* C1: in every run, the metadata row of a source is written only after
\* save_index has returned for that source in the same run: every source
\* committed in the run, and every source whose rows differ from those at
\* the start of the run, has had its index saved in the run.
C1_CommitOnlyAfterPersist ==
    /\ run.committed \subseteq run.saved
    /\ \A s \in Sources :
          RowsOf(documents, s) # RowsOf(run.dbStart, s) => s \in run.saved

C1_Witness ==
    \E s \in Sources :
        /\ s \in run.committed
        /\ RowsOf(documents, s) # RowsOf(run.dbStart, s)
        /\ indices[s].status = "complete"

\* C2 (as claimed): whenever no run is in progress (after a run has ended,
\* crashed or been cancelled at any step), every source that has a metadata
\* row has a complete, loadable index at indices/<source>.
C2_RowBackedByCompleteIndex ==
    pc = "idle" =>
        \A s \in Sources :
            RowsOf(documents, s) # {} => indices[s].status = "complete"

\* C3: when save_index raises for a source, the rows of that source's
\* filename are those of the start of the run: none if there was none,
\* the same row otherwise.
C3_NoRowWhenSaveFails ==
    run.failed.stage = "save" =>
        RowsOf(documents, run.failed.source) = RowsOf(run.dbStart, run.failed.source)

C3_Witness ==
    /\ run.outcome = "raised"
    /\ run.failed.stage = "save"
    /\ RowsOf(documents, run.failed.source) # {}
    /\ indices[run.failed.source].status = "partial"

\* C4 (as claimed): when embedding, saving or the commit fails for one
\* source group, the run still builds, saves and commits every other group:
\* once the run has ended, every other group of the run is committed.
C4_OtherGroupsStillCommitted ==
    (pc = "idle" /\ run.failed.stage \in {"embed", "save", "commit"}) =>
        \A s \in run.grouped \ {run.failed.source} : s \in run.committed

\* C5: needs_processing is false exactly when a row of the file's base name
\* exists whose file_hash is the file's SHA-256 and whose last_modified is
\* the file's modification time; no row, a differing hash alone and a
\* differing modification time alone each make it true.
C5_NeedsProcessingIff ==
    \A s \in Sources :
        FileOf(s) # NoFile =>
            LET rows  == RowsOf(documents, s)
                same_hash(r)  == r.file_hash = sha256(FileOf(s).content)
                same_mtime(r) == r.last_modified = FileOf(s).mtime
                answer == needs_processing(documents, files, file_path(s))
            IN  /\ answer = FALSE <=> \E r \in rows : same_hash(r) /\ same_mtime(r)
                /\ rows = {} => answer = TRUE
                /\ (\E r \in rows : ~same_hash(r) /\ same_mtime(r)) => answer = TRUE
                /\ (\E r \in rows : same_hash(r) /\ ~same_mtime(r)) => answer = TRUE

C5_Witness ==
    \E s \in Sources :
        /\ FileOf(s) # NoFile
        /\ \E r \in RowsOf(documents, s) :
              /\ r.file_hash = sha256(FileOf(s).content)
              /\ r.last_modified # FileOf(s).mtime
        /\ needs_processing(documents, files, file_path(s))

\* C6 (as claimed): once a run has completed and the directory is as the
\* run found it, needs_processing is false for every document of the
\* directory, so a second run selects nothing.
C6_SecondRunSelectsNothing ==
    (pc = "idle" /\ run.outcome \in {"completed", "up_to_date", "no_documents"}
     /\ files = run.filesStart) =>
        \A s \in Sources :
            FileOf(s) # NoFile => ~needs_processing(documents, files, file_path(s))

\* C7: the documents table never holds two rows of one filename, and a
\* filename upserted in the run has exactly one row.
C7_OneRowPerFilename ==
    /\ \A r1, r2 \in documents : r1.filename = r2.filename => r1 = r2
    /\ \A s \in run.committed : Cardinality(RowsOf(documents, s)) = 1

C7_Witness ==
    \E s \in run.committed :
        /\ RowsOf(run.dbStart, s) # {}
        /\ RowsOf(documents, s) # RowsOf(run.dbStart, s)
        /\ Cardinality(RowsOf(documents, s)) = 1

\* a step in which _update_document_record commits
UpsertStep == pc = "commit" /\ run'.committed # run.committed

\* C8: an upsert inserts a row when the filename has none and otherwise
\* updates the existing row (same id) to the new file_hash, chunk_count and
\* last_modified; either way processed_time becomes the instant of the
\* upsert, and the rows of all other filenames stay as they are.
C8_UpsertSemantics ==
    [][UpsertStep =>
        LET src  == docs_by_source[k].source
            sig  == get_file_signature(files, file_path(src))
            old  == RowsOf(documents, src)
            new  == RowsOf(documents', src)
        IN  /\ documents' \ new = documents \ old
            /\ Cardinality(new) = 1
            /\ \A r \in new :
                  /\ r.file_hash = sig.hash
                  /\ r.chunk_count = Len(docs_by_source[k].docs)
                  /\ r.last_modified = sig.last_modified
                  /\ r.processed_time = now
                  /\ old = {} => \A o \in documents : o.id # r.id
                  /\ \A o \in old : o.id = r.id
    ]_vars

C8_Witness ==
    \E s \in run.committed :
        /\ \E o \in RowsOf(run.dbStart, s), r \in RowsOf(documents, s) :
              o.id = r.id /\ o.processed_time # r.processed_time
        /\ \E r \in documents : r.filename # basename(file_path(s))

\* C9: a run in which discovery finds nothing or filtering selects nothing
\* goes no further than filtering: it calls neither the chunker, the
\* embedder, save_index nor the upsert, and the documents table and the
\* index directories are as they were when the run started.
C9_NoOpRun ==
    (run.outcome # NoValue /\ run.selected = {}) =>
        /\ pc \in {"idle", "filter"}
        /\ run.chunkCalls = 0
        /\ run.embedCalls = <<>>
        /\ run.saveCalls = <<>>
        /\ run.upsertCalls = <<>>
        /\ documents = run.dbStart
        /\ indices = run.idxStart

C9_Witness ==
    /\ pc = "idle"
    /\ run.outcome = "up_to_date"
    /\ documents # {}
    /\ \E s \in Sources : indices[s].status = "complete"

\* C10: the row committed for a source holds as chunk_count the number of
\* chunks of that source among the chunks of the run, and as file_hash and
\* last_modified the SHA-256 and the modification time of the source's file.
C10_CommittedValues ==
    [][UpsertStep =>
        LET src == docs_by_source[k].source
        IN  \A r \in RowsOf(documents', src) :
              /\ r.chunk_count =
                    Cardinality({i \in 1..Len(chunked_docs) : chunked_docs[i].source = src})
              /\ r.file_hash = sha256(FileOf(src).content)
              /\ r.last_modified = FileOf(src).mtime
    ]_vars

C10_Witness ==
    \E s \in run.committed :
        \E r \in RowsOf(documents, s) :
            /\ r.chunk_count > 1
            /\ FileOf(s) # NoFile
            /\ r.file_hash = sha256(FileOf(s).content)

Last(seq) == seq[Len(seq)]

\* a step in which create_from_documents returns the store of a group
EmbedStep == pc = "embed" /\ Len(run'.embedReturns) > Len(run.embedReturns)

\* C11: for the batch of chunks of a group given to create_from_documents,
\* the store built holds at every position i the i-th vector the embedder
\* returned together with the i-th chunk's text and the i-th chunk's
\* metadata.
C11_VectorsPairedWithChunks ==
    [][EmbedStep =>
        LET docs    == docs_by_source[k].docs
            vectors == Last(run'.embedReturns)
        IN  /\ Len(vector_store') >= Len(vectors)
            /\ \A i \in 1..Len(vectors) :
                  /\ vector_store'[i].vector = vectors[i]
                  /\ vector_store'[i].text = docs[i].page_content
                  /\ vector_store'[i].metadata = [source |-> docs[i].source]
    ]_vars

C11_Witness ==
    /\ pc = "save"
    /\ Len(vector_store) >= 2
    /\ vector_store[1].text # vector_store[2].text
    /\ vector_store[1].vector = Last(run.embedReturns)[1]
    /\ vector_store[2].vector = Last(run.embedReturns)[2]

\* C12: whatever the order of the items of the provider's response,
\* embed_documents returns one vector per input text, the i-th being the
\* vector the provider computed for the i-th text.
C12_ResponseResequenced ==
    [][EmbedStep =>
        LET texts   == page_contents(docs_by_source[k].docs)
            vectors == Last(run'.embedReturns)
        IN  /\ Len(vectors) = Len(texts)
            /\ \A i \in 1..Len(texts) : vectors[i] = Embedding(texts[i])
    ]_vars

C12_Witness ==
    \E c \in 1..Len(run.responses) :
        /\ \E i \in 1..(Len(run.responses[c]) - 1) :
              run.responses[c][i] > run.responses[c][i + 1]
        /\ \E i, j \in 1..Len(run.embedCalls[c]) :
              run.embedCalls[c][i] # run.embedCalls[c][j]
        /\ \A i \in 1..Len(run.embedCalls[c]) :
              run.embedReturns[c][i] = Embedding(run.embedCalls[c][i])

\* the texts of the chunks of a source among the chunks of a run, in
\* chunk order
TextsOfSource(chunks, source) ==
    LET OfSource(d) == d.source = source
    IN  page_contents(SelectSeq(chunks, OfSource))

\* C13: the embedder is called once for every source group and never
\* otherwise: the calls made so far are, group after group, the list of all
\* chunk texts of that group's source in chunk order, and no two groups
\* share a source.
C13_OneCallPerGroup ==
    /\ pc \in {"embed", "save", "saving", "commit"} =>
          LET done == IF pc = "embed" THEN k - 1 ELSE k
          IN  /\ Len(run.embedCalls) = done
              /\ \A i \in 1..done :
                    run.embedCalls[i] =
                        TextsOfSource(chunked_docs, docs_by_source[i].source)
              /\ \A i, j \in 1..Len(docs_by_source) :
                    docs_by_source[i].source = docs_by_source[j].source => i = j
    /\ (pc = "idle" /\ run.outcome = "completed") =>
          Len(run.embedCalls) = Cardinality(run.grouped)

C13_Witness ==
    /\ pc = "idle"
    /\ run.outcome = "completed"
    /\ Len(run.embedCalls) = 2
    /\ \E c \in 1..2 :
          /\ Len(run.embedCalls[c]) >= 2
          /\ run.embedCalls[c][1] # run.embedCalls[c][2]

Range(seq) == {seq[i] : i \in 1..Len(seq)}

\* C14: when the embedder raises for the batch of a source, save_index is
\* not called for that source, its metadata row is neither created nor
\* updated, and the directory indices/<source> is as it was when the run
\* started.
C14_NothingPersistedWhenEmbedFails ==
    run.failed.stage = "embed" =>
        LET s == run.failed.source
        IN  /\ s \notin Range(run.saveCalls)
            /\ s \notin Range(run.upsertCalls)
            /\ RowsOf(documents, s) = RowsOf(run.dbStart, s)
            /\ indices[s] = run.idxStart[s]

C14_Witness ==
    /\ pc = "idle"
    /\ run.outcome = "raised"
    /\ run.failed.stage = "embed"
    /\ RowsOf(documents, run.failed.source) # {}
    /\ indices[run.failed.source].status = "complete"

\* C15 (as claimed): a chain with chunk_overlap >= chunk_size is rejected
\* before any I/O: the database is never initialised, no run discovers,
\* hashes, embeds or persists anything.
C15_BadConfigRejectedBeforeIO ==
    chunk_overlap >= chunk_size =>
        /\ database = "absent"
        /\ pc = "new"
        /\ run = Closed
        /\ documents = {}
        /\ indices = [s \in Sources |-> NoIndex]

\* the exit status of the process command of cli.py: click.Abort when
\* process() raised
ExitStatus(outcome) == IF outcome = "raised" THEN 1 ELSE 0

\* C16 (as claimed): the overall status is non-zero only if every source
\* that was processed failed: a run in which some source was committed
\* ends with status zero.
C16_NonZeroOnlyIfAllFailed ==
    (pc = "idle" /\ ExitStatus(run.outcome) # 0) => run.committed = {}

\* C17 (as claimed): a file found missing where the pipeline reads it
\* (filtering, commit) only makes the run skip that document: no run is
\* ended by the exception of the missing file.
C17_MissingFileSkipsOnlyThatDocument ==
    (pc = "idle" /\ run.outcome = "raised") =>
        run.failed.stage \notin {"filter", "signature"}

\* C18: when the upsert of a source fails after its index was saved, the
\* file not having been touched since the run began, the index of the
\* source is complete on disk, the rows of its filename are those of the
\* start of the run, and needs_processing is true for the document, so the
\* next run selects it again.
C18_RetryAfterFailedUpsert ==
    (/\ pc = "idle"
     /\ run.outcome = "raised"
     /\ run.failed.stage = "commit"
     /\ edits = run.editsStart) =>
        LET s == run.failed.source
        IN  /\ s \in run.saved
            /\ indices[s].status = "complete"
            /\ RowsOf(documents, s) = RowsOf(run.dbStart, s)
            /\ needs_processing(documents, files, file_path(s))

C18_Witness ==
    /\ pc = "idle"
    /\ run.outcome = "raised"
    /\ run.failed.stage = "commit"
    /\ edits = run.editsStart
    /\ RowsOf(documents, run.failed.source) # {}
    /\ indices[run.failed.source].status = "complete"
    /\ needs_processing(documents, files, file_path(run.failed.source))

\* C19 (as claimed): the run over rfc1 (900 characters) and rfc2 (50
\* characters) with chunk_size 500 and chunk_overlap 100 ends with exactly
\* two rows, chunk_count 3 for rfc1 and 1 for rfc2, and an index directory
\* for each.
C19_ScenarioChunkCounts ==
    (/\ pc = "idle"
     /\ run.outcome = "completed"
     /\ run.filesStart = ScenarioFiles
     /\ run.dbStart = {}
     /\ chunk_size = Blocks(500)
     /\ chunk_overlap = Blocks(100)) =>
        /\ Cardinality(documents) = 2
        /\ \A r \in RowsOf(documents, "rfc1") : r.chunk_count = 3
        /\ \A r \in RowsOf(documents, "rfc2") : r.chunk_count = 1
        /\ RowsOf(documents, "rfc1") # {}
        /\ RowsOf(documents, "rfc2") # {}
        /\ indices["rfc1"].status = "complete"
        /\ indices["rfc2"].status = "complete"

\* the chunks put together again: the first as it is, every later one
\* without its first chunk_overlap characters
Rebuild(chunks) ==
    Concat([i \in 1..Len(chunks) |->
               IF i = 1 THEN chunks[i]
               ELSE SubSeq(chunks[i], chunk_overlap + 1, Len(chunks[i]))])

\* C20 (as claimed): for every text, chunk_size and chunk_overlap below
\* it, the chunks of the text put together without their overlap prefixes
\* are the text.
C20_ChunksRebuildText ==
    pc = "group" =>
        \A i \in 1..Len(docs_to_process) :
            Rebuild(TextsOfSource(chunked_docs, docs_to_process[i].source))
                = docs_to_process[i].page_content

\* C21 (as claimed): the empty text has no chunks, every other text shorter
\* than chunk_size has exactly one chunk, and no chunk is longer than
\* chunk_size.
C21_ShortTextIsOneChunk ==
    pc = "group" =>
        \A i \in 1..Len(docs_to_process) :
            LET text   == docs_to_process[i].page_content
                chunks == TextsOfSource(chunked_docs, docs_to_process[i].source)
            IN  /\ text = <<>> => chunks = <<>>
                /\ (0 < Len(text) /\ Len(text) < chunk_size) => Len(chunks) = 1
                /\ \A j \in 1..Len(chunks) : Len(chunks[j]) <= chunk_size

\* the chunks of a source among the chunks of a run, in chunk order
ChunksOfSource(chunks, source) ==
    LET OfSource(d) == d.source = source
    IN  SelectSeq(chunks, OfSource)

\* C23: grouping partitions the chunks by source: no two groups share a
\* source, every chunk's source has a group, and the group of a source holds
\* exactly the chunks of that source in the order they have among the chunks.
C23_GroupsPartitionChunks ==
    pc \in {"embed", "save", "saving", "commit"} =>
        /\ \A i, j \in 1..Len(docs_by_source) :
              i # j => docs_by_source[i].source # docs_by_source[j].source
        /\ \A c \in 1..Len(chunked_docs) :
              \E i \in 1..Len(docs_by_source) :
                  docs_by_source[i].source = chunked_docs[c].source
        /\ \A i \in 1..Len(docs_by_source) :
              docs_by_source[i].docs =
                  ChunksOfSource(chunked_docs, docs_by_source[i].source)

\* two groups, one of them of several chunks with different texts
C23_Witness ==
    /\ pc = "embed"
    /\ Len(docs_by_source) = 2
    /\ \E i \in 1..2 :
          /\ Len(docs_by_source[i].docs) >= 2
          /\ docs_by_source[i].docs[1] # docs_by_source[i].docs[2]

\* C24: when the file of every document that has a source exists, filtering
\* does not raise, hands to needs_processing the documents that have a
\* source and no other, and returns the documents that have a source and
\* need processing, in the order of the input.
C24_FilterSkipsSourceless ==
    [][(/\ pc = "filter"
        /\ \A i \in 1..Len(all_documents) :
              all_documents[i].source # "" =>
                  files[basename(file_path(all_documents[i].source))] # NoFile)
       => LET HasSource(d) == d.source # ""
              Wanted(d) == /\ d.source # ""
                           /\ needs_processing(documents, files, file_path(d.source))
              sourced == SelectSeq(all_documents, HasSource)
          IN  /\ run'.outcome # "raised"
              /\ run'.checked = [i \in 1..Len(sourced) |-> sourced[i].source]
              /\ docs_to_process' = SelectSeq(all_documents, Wanted)]_vars

\* filtering has returned one of three documents: one had no source, one
\* was up to date
C24_Witness ==
    /\ pc = "chunk"
    /\ Len(all_documents) = 3
    /\ Len(docs_to_process) = 1
    /\ Len(run.checked) = 2
    /\ \E i \in 1..3 : all_documents[i].source = ""

\* the calls of process(), in program order
Stages ==
    <<"_get_all_documents", "_filter_unprocessed_documents", "_chunk_documents",
      "_vectorize_and_store">>

\* C25: the calls of a run are made in the order discovery, filtering,
\* chunking, vectorize-and-store, each at most once and each given what the
\* call before it returned; a run that is in the loop over the groups or has
\* completed after selecting documents has made all four.
C25_StagesOnceInOrder ==
    /\ Len(run.calls) <= Len(Stages)
    /\ \A i \in 1..Len(run.calls) : run.calls[i].fn = Stages[i]
    /\ \A i \in 2..Len(run.calls) : run.calls[i].arg = run.calls[i - 1].ret
    /\ (\/ pc \in {"embed", "save", "saving", "commit"}
        \/ run.outcome = "completed") => Len(run.calls) = Len(Stages)

\* a run in the loop that discovered two documents and selected one
C25_Witness ==
    /\ pc = "embed"
    /\ Len(run.calls) = 4
    /\ Len(run.calls[1].ret) = 2
    /\ Len(run.calls[2].ret) = 1
    /\ Len(run.calls[4].arg) >= 1

\* C26 (as claimed): after a run has completed over a directory nobody
\* has written to since the run began, every source the filter selected has
\* a row with the hash and the modification time of its file.
C26_SelectedSourcesHaveRows ==
    (/\ pc = "idle"
     /\ run.outcome = "completed"
     /\ edits = run.editsStart) =>
        \A s \in run.selected :
            \E r \in RowsOf(documents, s) :
                /\ r.file_hash = sha256(FileOf(s).content)
                /\ r.last_modified = FileOf(s).mtime

\* C27 (as claimed): the row committed for a source in a run holds the hash
\* and the modification time of the file as it was read at discovery, the
\* version whose chunks are in the index saved in the run.
C27_RowDescribesIndexedVersion ==
    \A s \in run.committed :
        LET read == run.filesStart[basename(file_path(s))]
        IN  \A r \in RowsOf(documents, s) :
                /\ r.file_hash = sha256(read.content)
                /\ r.last_modified = read.mtime

\* the position at which a source first appears among the chunks
FirstAt(chunks, source) ==
    CHOOSE i \in 1..Len(chunks) :
        /\ chunks[i].source = source
        /\ \A j \in 1..(i - 1) : chunks[j].source # source

\* the sources of the groups from position from on
GroupSources(groups, from) == {groups[i].source : i \in from..Len(groups)}

\* the sources a run of process() over the directory dir and the rows table
\* has groups for, and so embeds, saves and commits
GroupedByRun(dir, table) ==
    UNION {SourcesOf(split_documents(
               filter_unprocessed_documents(get_doc_from_path(dir, order), table, dir)))
           : order \in Orderings({n \in FileNames : dir[n] # NoFile})}

\* in the loop, at its k-th group: the groups are in the order in which
\* their sources first appear among the chunks, the groups before the k-th
\* are saved and committed, and nothing has been done for a later group
InLoopOrder ==
    pc \in {"embed", "save", "saving", "commit"} =>
        /\ \A i, j \in 1..Len(docs_by_source) :
              i < j => FirstAt(chunked_docs, docs_by_source[i].source)
                          < FirstAt(chunked_docs, docs_by_source[j].source)
        /\ \A i \in 1..(k - 1) :
              /\ docs_by_source[i].source \in run.saved \cap run.committed
              /\ indices[docs_by_source[i].source] =
                    SavedIndex(create_from_documents(
                        docs_by_source[i].docs,
                        [j \in 1..Len(docs_by_source[i].docs) |->
                            ResponseItem(page_contents(docs_by_source[i].docs), j)]))
              /\ run.saveCalls[i] = docs_by_source[i].source
              /\ run.upsertCalls[i] = docs_by_source[i].source
        /\ Len(run.embedCalls) \in {k - 1, k}
        /\ Len(run.saveCalls) \in {k - 1, k}
        /\ Len(run.upsertCalls) = k - 1
        /\ \A s \in GroupSources(docs_by_source, k + 1) :
              /\ s \notin run.saved \cup run.committed
              /\ indices[s] = run.idxStart[s]
              /\ RowsOf(documents, s) = RowsOf(run.dbStart, s)

\* a step in which the run ends inside the loop without completing
AbortStep ==
    /\ pc \in {"embed", "save", "saving", "commit"}
    /\ pc' = "idle"
    /\ run'.outcome \in {"raised", "crashed"}

\* C28: the groups are worked on one after another in the order in which
\* their sources first appear; when the run aborts at the k-th group the
\* groups before it stay saved and committed and the later ones untouched,
\* and, nobody having written to the directory since the run began, a run
\* started then has groups for exactly the sources of the k-th and later
\* groups.
C28_AbortLeavesPrefixDone ==
    /\ []InLoopOrder
    /\ [][AbortStep =>
            /\ \A s \in GroupSources(docs_by_source, 1) \ GroupSources(docs_by_source, k) :
                  /\ indices'[s].status = "complete"
                  /\ RowsOf(documents', s) # {}
                  /\ s \in run'.committed
            /\ \A s \in GroupSources(docs_by_source, k + 1) :
                  /\ indices'[s] = run.idxStart[s]
                  /\ RowsOf(documents', s) = RowsOf(run.dbStart, s)
            /\ RowsOf(documents', docs_by_source[k].source)
                  = RowsOf(run.dbStart, docs_by_source[k].source)
            /\ edits' = run.editsStart =>
                  GroupedByRun(files', documents') = GroupSources(docs_by_source, k)]_vars

\* a run over two sources has aborted at the second one
C28_Witness ==
    /\ pc = "idle"
    /\ run.outcome = "raised"
    /\ run.failed.stage = "embed"
    /\ Cardinality(run.grouped) = 2
    /\ Cardinality(run.committed) = 1
    /\ edits = run.editsStart
    /\ GroupedByRun(files, documents) = {run.failed.source}

C22_ConcurrentUpsertsIndependent ==
    /\ \A s \in Sources : upserts[s].pc # "error"
    /\ (\E s \in Sources : upserts[s].pc # "done") => ENABLED NextUpserts
    /\ (\A s \in Sources : upserts[s].pc = "done") =>
          /\ \A s \in Sources :
                /\ Cardinality(RowsOf(documents, s)) = 1
                /\ \A r \in RowsOf(documents, s) :
                      /\ r.file_hash = upserts[s].sig.hash
                      /\ r.last_modified = upserts[s].sig.last_modified
                      /\ r.chunk_count = upserts[s].chunk_count
                      /\ r.processed_time = now
          /\ Cardinality({r.id : r \in documents}) = Cardinality(documents)
          /\ Cardinality(documents) = Cardinality(Sources)

\* both have returned, one of them having written while the other was
\* between its SELECT and its write; one updated a row, the other inserted
C22_Witness ==
    /\ \A s \in Sources : upserts[s].pc = "done"
    /\ \E s \in Sources : upserts[s].concurrent
    /\ \E s, o \in Sources : upserts[s].existing /\ ~upserts[o].existing
    /\ \E s, o \in Sources : upserts[s].chunk_count # upserts[o].chunk_count

\* C30 (as claimed): between calls, the history is empty, or it is one
\* system message followed by user and assistant messages in turn, the last
\* of them an assistant message; no system message stands anywhere else.
C30_HistoryAlternates ==
    call.kind = NoValue =>
        \/ conversation_history = <<>>
        \/ /\ conversation_history[1].role = "system"
           /\ \A i \in 2..Len(conversation_history) :
                 conversation_history[i].role =
                     IF i % 2 = 0 THEN "user" ELSE "assistant"
           /\ Len(conversation_history) >= 3
           /\ conversation_history[Len(conversation_history)].role = "assistant"

====
